---- MODULE Spec2Model ----
(***************************************************************************)
(* Model of archiver/granola_fetcher.py: the GranolaFetcher wrapper around *)
(* the Granola client.  One fetcher instance serves a sequence of calls to *)
(* fetch_new_documents, fetch_document_details and fetch_document_by_id.   *)
(* The client is an opaque collaborator: what it would return during a     *)
(* call is drawn from bounded sets when the call starts (variable remote), *)
(* and every client call may also fail.                                    *)
(*                                                                         *)
(* Strings that the code inspects character by character (transcripts)     *)
(* are sequences of one-character strings; identifiers are atoms.  Times   *)
(* are whole hours; a UTC offset is a whole number of hours.               *)
(***************************************************************************)
EXTENDS Integers, Sequences, FiniteSets, TLC

VARIABLES self, op, pc, args, remote, calls, locals, ret

vars == <<self, op, pc, args, remote, calls, locals, ret>>

(***************************************************************************)
(* Bounds of the model.                                                    *)
(***************************************************************************)
MaxListed == 2
MaxScanned == 3
MaxSegs == 2
MaxTextLen == 1

(***************************************************************************)
(* Python values.                                                          *)
(***************************************************************************)
NoneValue == [kind |-> "None"]
NoError == [type |-> "no error"]
ParserError == [type |-> "ParserError"]
TypeError == [type |-> "TypeError"]
ClientError(call) == [type |-> "ClientError", call |-> call]

Str(s) == [kind |-> "str", value |-> s]
List(items) == [kind |-> "list", items |-> items]

\* Python truth value of None, a str, a list or a datetime (a datetime is
\* always true).
Truthy(v) ==
    CASE v.kind = "None" -> FALSE
      [] v.kind = "str" -> v.value # ""
      [] v.kind = "list" -> v.items # <<>>
      [] OTHER -> TRUE

SeqsUpTo(S, n) == UNION {[1..k -> S] : k \in 0..n}

(***************************************************************************)
(* Timestamps.  Document.updated_at is a string; the model keeps what the  *)
(* text says: malformed, or a wall-clock hour followed by a zone           *)
(* designator ("" when the text carries none).                             *)
(***************************************************************************)
Hours == {0, 1}
Zones == {"", "Z", "+01:00"}

Malformed == [form |-> "malformed", local |-> 0, zone |-> ""]
IsoText(h, z) == [form |-> "iso", local |-> h, zone |-> z]
TimestampTexts == {Malformed} \cup {IsoText(h, z) : h \in Hours, z \in Zones}

DateTime(h, aware, off) ==
    [kind |-> "datetime", local |-> h, aware |-> aware, utcoffset |-> off]

ZoneOffset(z) == IF z = "+01:00" THEN 1 ELSE 0

\* A lenient parser: text it cannot read becomes a default instant.
parse_datetime_Lenient(text) ==
    IF text.form = "malformed"
    THEN [raise |-> NoError, value |-> DateTime(0, TRUE, 0)]
    ELSE [raise |-> NoError,
          value |-> DateTime(text.local, text.zone # "", ZoneOffset(text.zone))]

\* dateutil.parser.parse: a datetime, aware exactly when the text carries a
\* zone designator, or a ParserError.
parse_datetime(text) ==
    IF text.form = "malformed"
    THEN [raise |-> ParserError, value |-> NoneValue]
    ELSE [raise |-> NoError,
          value |-> DateTime(text.local, text.zone # "", ZoneOffset(text.zone))]

\* A strict comparison in place of >=.
DateTimeGe_Strict(a, b) ==
    IF a.aware # b.aware
    THEN [raise |-> TypeError, value |-> FALSE]
    ELSE [raise |-> NoError,
          value |-> (a.local - a.utcoffset) > (b.local - b.utcoffset)]

\* datetime.__ge__: aware datetimes compare as instants, naive ones as wall
\* clock; a naive one against an aware one raises TypeError.
DateTimeGe(a, b) ==
    IF a.aware # b.aware
    THEN [raise |-> TypeError, value |-> FALSE]
    ELSE [raise |-> NoError,
          value |-> (a.local - a.utcoffset) >= (b.local - b.utcoffset)]

\* A naive since read as local time, in a zone one hour east of UTC.
NormalizeSince_Local(since) ==
    IF ~since.aware THEN DateTime(since.local, TRUE, 1) ELSE since

\* since.replace(tzinfo=timezone.utc) when since.tzinfo is None.
NormalizeSince(since) ==
    IF ~since.aware THEN DateTime(since.local, TRUE, 0) ELSE since

SinceValues ==
    {NoneValue} \cup {DateTime(h, FALSE, 0) : h \in Hours}
                \cup {DateTime(h, TRUE, off) : h \in Hours, off \in {0, 1}}

(***************************************************************************)
(* Documents, workspaces.                                                  *)
(***************************************************************************)
DocumentIds == {"d1", "d2"}
WorkspaceIds == {"w1", "w2"}

Document(id, text, ws) ==
    [document_id |-> id, updated_at |-> text, workspace_id |-> ws]

WorkspaceArgs ==
    {NoneValue, List(<<>>), List(<<"w1">>), List(<<"w2", "w1">>)}

\* The documents an enumeration may hold.  fetch_new_documents reads only
\* updated_at and workspace_id, fetch_document_by_id only document_id (the
\* workspace keeps two documents with the same identifier distinguishable).
ListedDocuments ==
    {Document("d1", t, w) : t \in TimestampTexts, w \in WorkspaceIds}
ScannedDocuments ==
    {Document(id, IsoText(0, "Z"), w) : id \in DocumentIds, w \in WorkspaceIds}

(***************************************************************************)
(* fetch_new_documents: the two list comprehensions.                       *)
(***************************************************************************)
\* [doc for doc in all_documents if parse_datetime(doc.updated_at) >= since]
\* evaluated left to right; the first document whose timestamp does not
\* parse, or does not compare, ends the comprehension with that error.
RECURSIVE SinceComprehension(_, _)
SinceComprehension(docs, since) ==
    IF docs = <<>>
    THEN [raise |-> NoError, list |-> <<>>]
    ELSE LET doc == Head(docs)
             parsed == parse_datetime(doc.updated_at)
         IN  IF parsed.raise # NoError
             THEN [raise |-> parsed.raise, list |-> <<>>]
             ELSE LET ge == DateTimeGe(parsed.value, since)
                  IN  IF ge.raise # NoError
                      THEN [raise |-> ge.raise, list |-> <<>>]
                      ELSE LET rest == SinceComprehension(Tail(docs), since)
                           IN  IF rest.raise # NoError
                               THEN rest
                               ELSE [raise |-> NoError,
                                     list |-> IF ge.value
                                              THEN <<doc>> \o rest.list
                                              ELSE rest.list]

\* Membership tested against the first workspace only.
InWorkspaces_FirstOnly(workspace_id, items) ==
    items # <<>> /\ items[1] = workspace_id

\* doc.workspace_id in workspace_ids, on a Python list.
InWorkspaces(workspace_id, items) ==
    \E i \in DOMAIN items : items[i] = workspace_id

\* [doc for doc in all_documents if doc.workspace_id in workspace_ids]
RECURSIVE WorkspaceComprehension(_, _)
WorkspaceComprehension(docs, items) ==
    IF docs = <<>>
    THEN <<>>
    ELSE IF InWorkspaces(Head(docs).workspace_id, items)
         THEN <<Head(docs)>> \o WorkspaceComprehension(Tail(docs), items)
         ELSE WorkspaceComprehension(Tail(docs), items)

\* `if workspace_ids:` and the comprehension under it.
WorkspaceStep(docs, workspace_ids) ==
    IF Truthy(workspace_ids)
    THEN WorkspaceComprehension(docs, workspace_ids.items)
    ELSE docs

\* `if since:` and the block under it.
SinceStep(docs, since) ==
    IF Truthy(since)
    THEN SinceComprehension(docs, NormalizeSince(since))
    ELSE [raise |-> NoError, list |-> docs]

\* The body of fetch_new_documents after the listing has been collected.
FilterDocuments(all_documents, since, workspace_ids) ==
    LET bySince == SinceStep(all_documents, since)
    IN  IF bySince.raise # NoError
        THEN bySince
        ELSE [raise |-> NoError,
              list |-> WorkspaceStep(bySince.list, workspace_ids)]

(***************************************************************************)
(* The fetcher.                                                            *)
(***************************************************************************)
Tokens == {NoneValue, Str(""), Str("token")}

GranolaClient(token) == [token |-> token]
AutoDetected == Str("auto-detected")

\* GranolaFetcher.__init__
NewFetcher(token) ==
    [client |-> IF Truthy(token) THEN GranolaClient(token)
                                 ELSE GranolaClient(AutoDetected)]

\* The client as the call sees it: how often each method was called, how many
\* documents the enumeration has yielded, and the error the client raised.
NoCalls ==
    [list_all_documents |-> 0, yielded |-> 0,
     get_document_transcript |-> 0, get_document_metadata |-> 0,
     failed |-> NoError]

Pending == [kind |-> "pending", value |-> NoneValue, error |-> NoError]
Return(v) == [kind |-> "return", value |-> v, error |-> NoError]
Raise(e) == [kind |-> "raise", value |-> NoneValue, error |-> e]

Init ==
    /\ \E token \in Tokens : self = NewFetcher(token)
    /\ op = "idle"
    /\ pc = "idle"
    /\ args = NoneValue
    /\ remote = NoneValue
    /\ calls = NoCalls
    /\ locals = NoneValue
    /\ ret = Pending

\* A handler that swallows the error and tries the call again.
OnClientError_Retry(e) ==
    [pc |-> IF e.call = "list_all_documents" THEN "iterating" ELSE e.call,
     ret |-> Pending]

\* What the handler does when a client call it awaits raises e: nothing
\* catches it.
OnClientError(e) == [pc |-> "done", ret |-> Raise(e)]

\* A caller invokes fetch_new_documents(since, workspace_ids); documents is
\* what client.list_all_documents() will enumerate during this call.  The
\* handler runs up to its first pull from the enumeration.
NewStart ==
    /\ op = "idle"
    /\ \E since \in SinceValues, workspace_ids \in WorkspaceArgs,
          documents \in SeqsUpTo(ListedDocuments, MaxListed) :
          /\ args' = [since |-> since, workspace_ids |-> workspace_ids]
          /\ remote' = [documents |-> documents]
    /\ op' = "fetch_new_documents"
    /\ pc' = "iterating"
    /\ calls' = [NoCalls EXCEPT !.list_all_documents = 1]
    /\ locals' = NoneValue
    /\ ret' = Pending
    /\ self' = self

\* The enumeration runs to its end and the rest of the body follows without
\* another client call: filter, then return or raise.
NewFilterAndReturn ==
    /\ op = "fetch_new_documents"
    /\ pc = "iterating"
    /\ LET all_documents == remote.documents
           out == FilterDocuments(all_documents, args.since, args.workspace_ids)
       IN  /\ calls' = [calls EXCEPT !.yielded = Len(all_documents)]
           /\ locals' = [all_documents |-> all_documents]
           /\ ret' = IF out.raise # NoError THEN Raise(out.raise)
                                            ELSE Return(List(out.list))
    /\ pc' = "done"
    /\ UNCHANGED <<self, op, args, remote>>

\* The enumeration raises after yielding k documents; the comprehension has
\* no handler, so the call ends with the client's error.
NewListingFails ==
    /\ op = "fetch_new_documents"
    /\ pc = "iterating"
    /\ \E k \in 0..Len(remote.documents) :
          calls' = [calls EXCEPT !.yielded = k,
                                 !.failed = ClientError("list_all_documents")]
    /\ LET after == OnClientError(ClientError("list_all_documents"))
       IN  /\ pc' = after.pc
           /\ ret' = after.ret
    /\ UNCHANGED <<self, op, args, remote, locals>>

(***************************************************************************)
(* fetch_document_by_id: `async for doc in client.list_all_documents()`,   *)
(* one pull from the enumeration per step.                                 *)
(***************************************************************************)
ByIdStart ==
    /\ op = "idle"
    /\ \E document_id \in DocumentIds,
          documents \in SeqsUpTo(ScannedDocuments, MaxScanned) :
          /\ args' = [document_id |-> document_id]
          /\ remote' = [documents |-> documents]
    /\ op' = "fetch_document_by_id"
    /\ pc' = "iterating"
    /\ calls' = [NoCalls EXCEPT !.list_all_documents = 1]
    /\ locals' = NoneValue
    /\ ret' = Pending
    /\ self' = self

\* A loop that notes the match but keeps scanning.
LoopBody_NoReturn(doc, document_id) ==
    IF doc.document_id = document_id
    THEN [pc |-> "iterating", ret |-> Return(doc)]
    ELSE [pc |-> "iterating", ret |-> Pending]

\* One turn of the loop on the document the enumeration yields: return it
\* when its identifier is the requested one, else go on.
LoopBody(doc, document_id) ==
    IF doc.document_id = document_id
    THEN [pc |-> "done", ret |-> Return(doc)]
    ELSE [pc |-> "iterating", ret |-> Pending]

ByIdYield ==
    /\ op = "fetch_document_by_id"
    /\ pc = "iterating"
    /\ calls.yielded < Len(remote.documents)
    /\ LET doc == remote.documents[calls.yielded + 1]
           turn == LoopBody(doc, args.document_id)
       IN  /\ calls' = [calls EXCEPT !.yielded = @ + 1]
           /\ pc' = turn.pc
           /\ ret' = turn.ret
    /\ UNCHANGED <<self, op, args, remote, locals>>

\* A lookup that raises when nothing matches.
NotFound_Raises == Raise([type |-> "KeyError"])

\* What the code after the loop produces.
NotFound == Return(NoneValue)

\* A not-found path that builds a fresh client.
ByIdExhausted_Reconnect ==
    /\ op = "fetch_document_by_id"
    /\ pc = "iterating"
    /\ calls.yielded = Len(remote.documents)
    /\ ret' = NotFound
    /\ pc' = "done"
    /\ self' = NewFetcher(NoneValue)
    /\ UNCHANGED <<op, args, remote, calls, locals>>

\* The enumeration ends: the loop falls through to `return None`.
ByIdExhausted ==
    /\ op = "fetch_document_by_id"
    /\ pc = "iterating"
    /\ calls.yielded = Len(remote.documents)
    /\ ret' = NotFound
    /\ pc' = "done"
    /\ UNCHANGED <<self, op, args, remote, calls, locals>>

\* The pull raises instead of yielding; the loop has no handler.
ByIdListingFails ==
    /\ op = "fetch_document_by_id"
    /\ pc = "iterating"
    /\ calls' = [calls EXCEPT !.failed = ClientError("list_all_documents")]
    /\ LET after == OnClientError(ClientError("list_all_documents"))
       IN  /\ pc' = after.pc
           /\ ret' = after.ret
    /\ UNCHANGED <<self, op, args, remote, locals>>

(***************************************************************************)
(* fetch_document_details.                                                 *)
(***************************************************************************)
Chars == {"a", "\n"}
Texts == SeqsUpTo(Chars, MaxTextLen)

\* A transcript segment: with a text attribute, or any other object, of
\* which the code takes str(segment).
TextSegment(t) == [has_text |-> TRUE, text |-> t, str |-> <<"s", "e", "g">>]
OtherSegment == [has_text |-> FALSE, text |-> <<>>, str |-> <<"o">>]
Segments == {TextSegment(t) : t \in Texts} \cup {OtherSegment}

Dict(items) == [kind |-> "dict", items |-> items]

\* A metadata object: a Pydantic model with model_dump(), or an object
\* without that method.
MetadataObjects ==
    {[has_model_dump |-> TRUE, data |-> {}],
     [has_model_dump |-> TRUE, data |-> {<<"title", "standup">>}],
     [has_model_dump |-> FALSE, data |-> {<<"title", "standup">>}]}

\* sep.join(lines)
RECURSIVE Join(_, _)
Join(sep, lines) ==
    IF lines = <<>> THEN <<>>
    ELSE IF Len(lines) = 1 THEN lines[1]
    ELSE lines[1] \o sep \o Join(sep, Tail(lines))

\* segment.text if hasattr(segment, "text") else str(segment)
SegmentText(segment) == IF segment.has_text THEN segment.text ELSE segment.str

\* A single newline between segments.
Separator_Single == <<"\n">>

Separator == <<"\n", "\n">>

_format_transcript_segments(segments) ==
    IF segments = <<>>
    THEN <<>>
    ELSE Join(Separator, [i \in DOMAIN segments |-> SegmentText(segments[i])])

\* The object's data taken whether or not it can be exported.
MetadataOf_AlwaysDump(metadata_obj) == Dict(metadata_obj.data)

\* metadata_obj.model_dump() if hasattr(metadata_obj, "model_dump") else {}
MetadataOf(metadata_obj) ==
    IF metadata_obj.has_model_dump THEN Dict(metadata_obj.data) ELSE Dict({})

DocumentDetails(document, transcript, metadata) ==
    [kind |-> "DocumentDetails", document |-> document,
     transcript |-> transcript, metadata |-> metadata]

DetailsStart ==
    /\ op = "idle"
    /\ \E document \in ScannedDocuments,
          transcript_segments \in SeqsUpTo(Segments, MaxSegs),
          metadata_obj \in MetadataObjects :
          /\ args' = [document |-> document]
          /\ remote' = [transcript_segments |-> transcript_segments,
                        metadata_obj |-> metadata_obj]
    /\ op' = "fetch_document_details"
    /\ pc' = "get_document_transcript"
    /\ calls' = NoCalls
    /\ locals' = NoneValue
    /\ ret' = Pending
    /\ self' = self

\* await client.get_document_transcript(document_id) returns.
DetailsTranscript ==
    /\ op = "fetch_document_details"
    /\ pc = "get_document_transcript"
    /\ calls' = [calls EXCEPT !.get_document_transcript = @ + 1]
    /\ locals' = [transcript |->
                    _format_transcript_segments(remote.transcript_segments)]
    /\ pc' = "get_document_metadata"
    /\ UNCHANGED <<self, op, args, remote, ret>>

\* await client.get_document_transcript(document_id) raises.
DetailsTranscriptFails ==
    /\ op = "fetch_document_details"
    /\ pc = "get_document_transcript"
    /\ calls' = [calls EXCEPT !.get_document_transcript = @ + 1,
                               !.failed = ClientError("get_document_transcript")]
    /\ LET after == OnClientError(ClientError("get_document_transcript"))
       IN  /\ pc' = after.pc
           /\ ret' = after.ret
    /\ UNCHANGED <<self, op, args, remote, locals>>

\* await client.get_document_metadata(document_id) returns.
DetailsMetadata ==
    /\ op = "fetch_document_details"
    /\ pc = "get_document_metadata"
    /\ calls' = [calls EXCEPT !.get_document_metadata = @ + 1]
    /\ ret' = Return(DocumentDetails(args.document, locals.transcript,
                                     MetadataOf(remote.metadata_obj)))
    /\ pc' = "done"
    /\ UNCHANGED <<self, op, args, remote, locals>>

\* await client.get_document_metadata(document_id) raises.
DetailsMetadataFails ==
    /\ op = "fetch_document_details"
    /\ pc = "get_document_metadata"
    /\ calls' = [calls EXCEPT !.get_document_metadata = @ + 1,
                               !.failed = ClientError("get_document_metadata")]
    /\ LET after == OnClientError(ClientError("get_document_metadata"))
       IN  /\ pc' = after.pc
           /\ ret' = after.ret
    /\ UNCHANGED <<self, op, args, remote, locals>>

\* The call is over; its frame is gone.
Finish ==
    /\ pc = "done"
    /\ op' = "idle"
    /\ pc' = "idle"
    /\ args' = NoneValue
    /\ remote' = NoneValue
    /\ calls' = NoCalls
    /\ locals' = NoneValue
    /\ ret' = Pending
    /\ self' = self

Next ==
    \/ NewStart
    \/ NewFilterAndReturn
    \/ NewListingFails
    \/ ByIdStart
    \/ ByIdYield
    \/ ByIdExhausted
    \/ ByIdListingFails
    \/ DetailsStart
    \/ DetailsTranscript
    \/ DetailsTranscriptFails
    \/ DetailsMetadata
    \/ DetailsMetadataFails
    \/ Finish

Spec == Init /\ [][Next]_vars

(***************************************************************************)
(* Properties.  They speak of finished calls: Done(o) is the state in      *)
(* which the call of o has returned or raised and the caller has not yet   *)
(* dropped the frame.                                                      *)
(***************************************************************************)
Done(o) == op = o /\ pc = "done"
ClientFailed == calls.failed # NoError
Returned == ret.kind = "return"
Raised == ret.kind = "raise"

\* The timestamp text names an instant: it is well formed and carries a zone.
AbsoluteTime(doc) ==
    doc.updated_at.form = "iso" /\ doc.updated_at.zone \in {"Z", "+01:00"}
IsMalformed(doc) == doc.updated_at.form = "malformed"

\* The instant such a text names, in hours UTC.
UtcHour(doc) ==
    IF doc.updated_at.zone = "+01:00" THEN doc.updated_at.local - 1
                                      ELSE doc.updated_at.local

\* The instant a since value names; a naive one is read as UTC.
SinceUtcHour(since) ==
    IF since.aware THEN since.local - since.utcoffset ELSE since.local

AllAbsolute(docs) == \A i \in DOMAIN docs : AbsoluteTime(docs[i])
WorkspaceSet(workspace_ids) ==
    {workspace_ids.items[i] : i \in DOMAIN workspace_ids.items}

UpdatedSince(docs, since) ==
    SelectSeq(docs, LAMBDA d : UtcHour(d) >= SinceUtcHour(since))
InWorkspaceSet(docs, W) ==
    SelectSeq(docs, LAMBDA d : d.workspace_id \in W)
UpdatedSinceInWorkspaceSet(docs, since, W) ==
    SelectSeq(docs, LAMBDA d : /\ UtcHour(d) >= SinceUtcHour(since)
                               /\ d.workspace_id \in W)

NewFinished == Done("fetch_new_documents") /\ ~ClientFailed

\* C1 as stated: with since absent and workspace_ids = W, W empty included,
\* fetch_new_documents returns exactly the documents of D whose workspace is
\* in W, in the order of D.
C1_AsStated ==
    (NewFinished /\ args.since = NoneValue /\ args.workspace_ids.kind = "list")
    => ret = Return(List(InWorkspaceSet(remote.documents,
                                        WorkspaceSet(args.workspace_ids))))

\* C1 amended: for a non-empty W the result is exactly the documents of D
\* whose workspace is in W, in order (since absent), and exactly those that
\* also pass the since filter (since given, timestamps naming instants); an
\* empty W filters nothing, like an absent one.
C1_WorkspaceFilter ==
    NewFinished =>
      LET D == remote.documents
          since == args.since
          W == args.workspace_ids
      IN  /\ (since = NoneValue /\ Truthy(W))
                => ret = Return(List(InWorkspaceSet(D, WorkspaceSet(W))))
          /\ (since = NoneValue /\ ~Truthy(W))
                => ret = Return(List(D))
          /\ (since # NoneValue /\ Truthy(W) /\ AllAbsolute(D))
                => ret = Return(List(
                       UpdatedSinceInWorkspaceSet(D, since, WorkspaceSet(W))))
          /\ (since # NoneValue /\ ~Truthy(W) /\ AllAbsolute(D))
                => ret = Return(List(UpdatedSince(D, since)))

\* A call with both filters that keeps one document and drops one for its
\* workspace.
C1_Witness ==
    /\ NewFinished /\ Returned
    /\ args.since # NoneValue
    /\ args.workspace_ids = List(<<"w2", "w1">>)
    /\ Len(remote.documents) = 2
    /\ remote.documents[1].workspace_id = "w1"
    /\ Len(ret.value.items) = 1
    /\ ret.value.items[1] = remote.documents[1]
    /\ UtcHour(remote.documents[2]) < SinceUtcHour(args.since)

OutcomeOf(out) ==
    IF out.raise # NoError THEN Raise(out.raise) ELSE Return(List(out.list))

\* C3: a call with a naive since ends as the call with the same wall-clock
\* time marked UTC does, for every document list and workspace argument.
C3_NaiveSinceIsUtc ==
    (NewFinished /\ args.since # NoneValue /\ ~args.since.aware)
    => ret = OutcomeOf(FilterDocuments(remote.documents,
                                       DateTime(args.since.local, TRUE, 0),
                                       args.workspace_ids))

\* A naive since of hour 1 that keeps a document of 01:00Z and drops one of
\* 01:00+01:00.
C3_Witness ==
    /\ NewFinished /\ Returned
    /\ args.since = DateTime(1, FALSE, 0)
    /\ Len(remote.documents) = 2
    /\ remote.documents[1].updated_at = IsoText(1, "+01:00")
    /\ remote.documents[2].updated_at = IsoText(1, "Z")
    /\ ret.value.items = <<remote.documents[2]>>

SomeMalformed(docs) == \E i \in DOMAIN docs : IsMalformed(docs[i])
FirstMalformed(docs) ==
    CHOOSE i \in DOMAIN docs :
        IsMalformed(docs[i]) /\ \A j \in 1..(i - 1) : ~IsMalformed(docs[j])

\* C9 as stated: a malformed update timestamp in the enumeration makes
\* fetch_new_documents fail with a parse error whatever the arguments are,
\* since absent included.
C9_AsStated ==
    (NewFinished /\ SomeMalformed(remote.documents))
    => ret = Raise(ParserError)

\* C9 amended: with since given, a malformed update timestamp makes the call
\* fail and return no list; the failure is the parse error when every
\* document before the first malformed one has a timestamp naming an
\* instant, and the comparison's TypeError of an earlier zone-less timestamp
\* otherwise.  With since absent no timestamp is parsed and the call returns
\* its list.
C9_MalformedTimestamp ==
    (NewFinished /\ SomeMalformed(remote.documents))
    => LET D == remote.documents
           m == FirstMalformed(D)
       IN  IF args.since = NoneValue
           THEN Returned
           ELSE /\ Raised
                /\ ret.value = NoneValue
                /\ IF \A j \in 1..(m - 1) : AbsoluteTime(D[j])
                   THEN ret.error = ParserError
                   ELSE ret.error = TypeError

\* A malformed timestamp behind a good one, met by the since filter.
C9_Witness ==
    /\ NewFinished
    /\ args.since # NoneValue
    /\ Len(remote.documents) = 2
    /\ AbsoluteTime(remote.documents[1])
    /\ IsMalformed(remote.documents[2])
    /\ ret = Raise(ParserError)

Matches(docs, document_id) ==
    {i \in DOMAIN docs : docs[i].document_id = document_id}
FirstMatch(docs, document_id) ==
    CHOOSE k \in Matches(docs, document_id) :
        \A j \in Matches(docs, document_id) : k <= j

\* C4: fetch_document_by_id returns the first document of the enumeration
\* with the requested identifier and pulls nothing after it: with the first
\* match at position k exactly k documents are pulled, later documents with
\* the same identifier or not; and the enumeration is opened once.
C4_FirstMatchEarlyExit ==
    op = "fetch_document_by_id" =>
      LET D == remote.documents
          M == Matches(D, args.document_id)
      IN  /\ calls.list_all_documents = 1
          /\ M # {} => calls.yielded <= FirstMatch(D, args.document_id)
          /\ (pc = "done" /\ ~ClientFailed /\ M # {})
                => /\ ret = Return(D[FirstMatch(D, args.document_id)])
                   /\ calls.yielded = FirstMatch(D, args.document_id)

\* The second of three documents matches and is returned after two pulls,
\* the third, with the same identifier, never pulled.
C4_Witness ==
    /\ Done("fetch_document_by_id") /\ Returned
    /\ Len(remote.documents) = 3
    /\ remote.documents[1].document_id # args.document_id
    /\ remote.documents[2].document_id = args.document_id
    /\ remote.documents[3].document_id = args.document_id
    /\ remote.documents[3].workspace_id # remote.documents[2].workspace_id
    /\ ret.value = remote.documents[2]
    /\ calls.yielded = 2

\* C5: when no document has the requested identifier, the empty enumeration
\* included, fetch_document_by_id pulls every document and returns None; it
\* raises nothing of its own, and a document it returns has the requested
\* identifier.
C5_AbsentIsNone ==
    Done("fetch_document_by_id") =>
      /\ (Matches(remote.documents, args.document_id) = {} /\ ~ClientFailed)
            => /\ ret = Return(NoneValue)
               /\ calls.yielded = Len(remote.documents)
      /\ Raised => (ClientFailed /\ ret.error = calls.failed)
      /\ (Returned /\ ret.value # NoneValue)
            => ret.value.document_id = args.document_id

\* A full scan of documents that all carry another identifier.
C5_Witness ==
    /\ Done("fetch_document_by_id")
    /\ Len(remote.documents) = 2
    /\ Matches(remote.documents, args.document_id) = {}
    /\ calls.yielded = 2
    /\ ret = Return(NoneValue)

\* The text the code takes from a segment.
Piece(segment) == IF segment.has_text THEN segment.text ELSE segment.str

\* Where the i-th piece starts in the joined transcript, counting two
\* separator characters after each earlier piece.
RECURSIVE StartOf(_, _)
StartOf(segments, i) ==
    IF i = 1 THEN 1
    ELSE StartOf(segments, i - 1) + Len(Piece(segments[i - 1])) + 2

\* C6: the transcript of the returned DocumentDetails is the segments' texts
\* in order, joined by exactly two newlines, nothing before the first or
\* after the last; no segments give the empty string.
C6_TranscriptJoin ==
    (Done("fetch_document_details") /\ Returned) =>
      LET segs == remote.transcript_segments
          n == Len(segs)
          t == ret.value.transcript
      IN  IF n = 0
          THEN t = <<>>
          ELSE /\ Len(t) = StartOf(segs, n) + Len(Piece(segs[n])) - 1
               /\ \A i \in 1..n :
                     SubSeq(t, StartOf(segs, i),
                            StartOf(segs, i) + Len(Piece(segs[i])) - 1)
                        = Piece(segs[i])
               /\ \A i \in 1..(n - 1) :
                     LET e == StartOf(segs, i) + Len(Piece(segs[i]))
                     IN  t[e] = "\n" /\ t[e + 1] = "\n"

\* Two segments, the first with an empty text: the transcript starts with
\* the separator.
C6_Witness ==
    /\ Done("fetch_document_details") /\ Returned
    /\ Len(remote.transcript_segments) = 2
    /\ remote.transcript_segments[1] = TextSegment(<<>>)
    /\ remote.transcript_segments[2] = TextSegment(<<"a">>)
    /\ ret.value.transcript = <<"\n", "\n", "a">>

\* C7: a metadata object without structured export still gives a
\* DocumentDetails, with the empty mapping as metadata; one with export gives
\* exactly the exported mapping.  Either way the document is the argument and
\* the transcript is the one formatted before the metadata call.
C7_MetadataDefault ==
    (Done("fetch_document_details") /\ ~ClientFailed) =>
      /\ Returned
      /\ ret.value.kind = "DocumentDetails"
      /\ ret.value.metadata.kind = "dict"
      /\ ~remote.metadata_obj.has_model_dump => ret.value.metadata.items = {}
      /\ remote.metadata_obj.has_model_dump
            => ret.value.metadata.items = remote.metadata_obj.data
      /\ ret.value.document = args.document
      /\ ret.value.transcript = locals.transcript

\* A metadata object that carries data but cannot export it.
C7_Witness ==
    /\ Done("fetch_document_details") /\ Returned
    /\ ~remote.metadata_obj.has_model_dump
    /\ remote.metadata_obj.data # {}
    /\ ret.value.metadata = Dict({})
    /\ ret.value.transcript # <<>>

\* C8: a failing client call ends the call with that very error: no result,
\* no second attempt.  Each client method is called at most once in a call,
\* the metadata call not at all after a failed transcript call, and the
\* enumeration is not opened again after it failed.
C8_FailurePropagates ==
    /\ calls.list_all_documents <= 1
    /\ calls.get_document_transcript <= 1
    /\ calls.get_document_metadata <= 1
    /\ ClientFailed =>
          /\ pc = "done"
          /\ ret = [kind |-> "raise", value |-> NoneValue,
                    error |-> calls.failed]
          /\ calls.failed.type = "ClientError"
    /\ calls.failed = ClientError("get_document_transcript")
          => calls.get_document_metadata = 0
    /\ (op = "fetch_document_details" /\ Returned)
          => (calls.get_document_transcript = 1
                /\ calls.get_document_metadata = 1)

\* The metadata call fails after the transcript was fetched and formatted.
C8_Witness ==
    /\ Done("fetch_document_details")
    /\ calls.failed = ClientError("get_document_metadata")
    /\ locals # NoneValue
    /\ locals.transcript # <<>>
    /\ ret = Raise(ClientError("get_document_metadata"))

\* C10: no step of any call assigns to the fetcher: its only attribute is the
\* client handle set by the constructor; and between calls nothing of a call
\* is left, so that a call starts from the same state whatever came before.
C10_NoInstanceState ==
    /\ [][self' = self]_vars
    /\ [](DOMAIN self = {"client"})
    /\ [](op = "idle" =>
            /\ pc = "idle" /\ args = NoneValue /\ remote = NoneValue
            /\ calls = NoCalls /\ locals = NoneValue /\ ret = Pending)

\* A fetcher built with a token has finished a lookup that found nothing.
C10_Witness ==
    /\ Done("fetch_document_by_id")
    /\ ret = Return(NoneValue)
    /\ remote.documents # <<>>
    /\ self = [client |-> GranolaClient(Str("token"))]

====
